---------------------------- MODULE Spec2Model ----------------------------
(* A model of main.py: the AQI bot's per-location pipeline                  *)
(* (fetch -> classify -> advisory -> local time -> compose -> publish) and  *)
(* the __main__ loop that runs it over the configured locations.            *)
(*                                                                          *)
(* Concentrations are integers in tenths of a microgram per cubic metre     *)
(* (pm25 = 125 stands for 12.5), so that the products of get_aqi_category   *)
(* (x * 4.8, x * 1.8, x * 2.8) are the rationals n / 100 and int() is       *)
(* truncation toward zero of that quotient.  The code computes the product  *)
(* in binary floating point: where n / 100 is a whole number the float may  *)
(* fall just short of it and int() then gives a value one nearer to zero    *)
(* (pm25 = 30.0 with index 5: 75 in the code, 74 here).  The difference is  *)
(* at most 1 and none of the properties below turns on it.                  *)
EXTENDS Integers, Sequences, FiniteSets

(***************************************************************************)
(* Bounds of the model.                                                    *)
(***************************************************************************)
\* number of entries of config.json's "locations" list
NumLocations == 2
\* SpecClassify draws pm2_5 from 0 .. MaxPm25 tenths
MaxPm25 == 1300
\* SpecClassify draws the ordinal index from -1 .. MaxIndex
MaxIndex == 7

(***************************************************************************)
(* JSON values as the code meets them: a number, something that is not a   *)
(* number (a string, null), or a key that is absent.                       *)
(***************************************************************************)
Num(n) == [k |-> "num", n |-> n]
NonNum == [k |-> "nonnum", n |-> 0]
Absent == [k |-> "absent", n |-> 0]

\* dict.get(key, 0), lines 62-63: the default only replaces an absent key
Get(v, default) == IF v.k = "absent" THEN Num(default) ELSE v

\* Python's int() of the rational n / d (d > 0): truncation toward zero
Trunc(n, d) == IF n >= 0 THEN n \div d ELSE -((-n) \div d)

Min(a, b) == IF a <= b THEN a ELSE b

(***************************************************************************)
(* get_aqi_openweather, lines 28-74.  A response of the weather provider   *)
(* is: a network exception raised by requests.get, or a status code and a  *)
(* body; the body is malformed JSON, JSON without "list", JSON with an     *)
(* empty "list", or JSON whose list[0] holds main.aqi and the components.  *)
(***************************************************************************)
None == [kind |-> "none", aqi_index |-> Absent, pm25 |-> Absent, pm10 |-> Absent]
Raised == [kind |-> "raise", aqi_index |-> Absent, pm25 |-> Absent, pm10 |-> Absent]
Reading(a, p25, p10) == [kind |-> "reading", aqi_index |-> a, pm25 |-> p25, pm10 |-> p10]

\* the body of the try block, lines 39-70; "raise" is an exception raised in it
FetchTry(resp) ==
    IF resp.net THEN Raised                                   \* line 39
    ELSE IF resp.status # 200 THEN None                       \* lines 46-48
    ELSE IF resp.body = "malformed" THEN Raised               \* line 50
    ELSE IF resp.body \in {"nolist", "emptylist"} THEN None   \* lines 53-55
    ELSE IF resp.aqi.k = "absent" THEN Raised                 \* line 58 (KeyError)
    ELSE Reading(resp.aqi, Get(resp.pm25, 0), Get(resp.pm10, 0))

\* a fetcher whose handler is missing: the exception of the try block escapes
FetchNoHandler(resp) == FetchTry(resp)

\* lines 38-74: except Exception turns every exception of the try into None
get_aqi_openweather(resp) ==
    LET r == FetchTry(resp) IN IF r.kind = "raise" THEN None ELSE r

(***************************************************************************)
(* get_aqi_category, lines 76-106.  aqi_index == k is False for a value    *)
(* that is not a number, so such an index falls to the else branch; the    *)
(* arithmetic on pm25 raises TypeError when pm25 is not a number.          *)
(***************************************************************************)
IndexIs(a, k) == a.k = "num" /\ a.n = k

Classification(c, e, v) == [kind |-> "ok", category |-> c, emoji |-> e, epa_aqi |-> v]
ClassifyRaised == [kind |-> "raise", category |-> "", emoji |-> "", epa_aqi |-> 0]

\* a classifier with the earliest variant's else branch for an unknown index
CategoryWithUnknown(aqi_index, pm25) ==
    IF pm25.k # "num" THEN ClassifyRaised
    ELSE IF IndexIs(aqi_index, 1) THEN Classification("Good", "green", Min(Trunc(pm25.n * 48, 100), 50))
    ELSE IF IndexIs(aqi_index, 2) THEN Classification("Fair", "green", Min(50 + Trunc((pm25.n - 100) * 48, 100), 100))
    ELSE IF IndexIs(aqi_index, 3) THEN Classification("Moderate", "yellow", Min(100 + Trunc((pm25.n - 250) * 18, 100), 150))
    ELSE IF IndexIs(aqi_index, 4) THEN Classification("Poor", "orange", Min(150 + Trunc((pm25.n - 500) * 18, 100), 200))
    ELSE IF IndexIs(aqi_index, 5) THEN Classification("Very Poor", "red", Min(200 + Trunc((pm25.n - 750) * 28, 100), 300))
    ELSE Classification("Unknown", "white", 0)

get_aqi_category(aqi_index, pm25) ==
    IF pm25.k # "num" THEN ClassifyRaised
    ELSE IF IndexIs(aqi_index, 1)                                          \* lines 80-84
        THEN Classification("Good", "green", Min(Trunc(pm25.n * 48, 100), 50))
    ELSE IF IndexIs(aqi_index, 2)                                          \* lines 85-88
        THEN Classification("Fair", "green", Min(50 + Trunc((pm25.n - 100) * 48, 100), 100))
    ELSE IF IndexIs(aqi_index, 3)                                          \* lines 89-92
        THEN Classification("Moderate", "yellow", Min(100 + Trunc((pm25.n - 250) * 18, 100), 150))
    ELSE IF IndexIs(aqi_index, 4)                                          \* lines 93-96
        THEN Classification("Poor", "orange", Min(150 + Trunc((pm25.n - 500) * 18, 100), 200))
    ELSE Classification("Very Poor", "red", Min(200 + Trunc((pm25.n - 750) * 28, 100), 300))

(***************************************************************************)
(* get_caring_message_from_gemini, lines 108-132.  The provider's outcome  *)
(* is a reply with text, an exception of generate_content, or a reply      *)
(* whose .text is missing (reading it raises inside the try block).        *)
(***************************************************************************)
GeminiOutcomes == {"text", "raise", "notext"}

\* line 132
FALLBACK_MESSAGE == "Stay safe and take appropriate precautions for today's air quality."

\* a generator whose fallback is a table keyed by the category
CaringMessagePerCategory(aqi_category, outcome) ==
    IF outcome = "text" THEN "generated" ELSE aqi_category

get_caring_message_from_gemini(aqi_category, outcome) ==
    IF outcome = "text" THEN "generated"     \* lines 122-129
    ELSE FALLBACK_MESSAGE                    \* lines 130-132


(***************************************************************************)
(* post_tweet's publishing, lines 165-209, and update_aqi's result.        *)
(***************************************************************************)
\* outcomes of client_v2.create_tweet and of reading result.data['id'],
\* lines 192-193: the call raises, returns a result with data['id'], or
\* returns a result without it (line 193 then raises inside the try block)
V2Outcomes == {"ok", "raise", "badshape"}
\* outcomes of api_v1.update_status, line 204
V1Outcomes == {"ok", "raise"}

\* a publisher that tries the older interface whatever the newer one did
FallbackAlways(v2o) == TRUE

\* lines 192-199: the except branch is entered unless line 195 was reached
NeedsFallback(v2o) == v2o # "ok"

\* a publisher that reports failure whenever the newer interface failed
PostResultPrimaryOnly(v2o, v1o) == v2o = "ok"

\* lines 195, 206, 209: what post_tweet returns
PostResult(v2o, v1o) == v2o = "ok" \/ v1o = "ok"

\* an update_aqi that reports success once a reading was fetched
UpdateResultIgnoringPost(posted) == "True"

\* lines 219-225: update_aqi returns what post_tweet returned
UpdateResult(posted) == posted

\* an entry point whose handler ends the process with a failure status
ExitCodeFailing(path) == IF path = "except" THEN 1 ELSE 0

\* lines 274-287: there is no sys.exit; after the loop and after the handler
\* alike the script falls off its end, and the interpreter exits with 0
ExitCode(path) == 0

(***************************************************************************)
(* Inputs.                                                                 *)
(***************************************************************************)
\* where a location's four Twitter credentials come from, lines 248-259:
\* "env": all four environment variables are set; otherwise the config
\* file's twitter_credentials is used, which is a full bundle ("file"), a
\* bundle that has api_key but lacks another entry ("partial"), or absent
CredSources == {"env", "file", "partial", "absent"}

NetError == [net |-> TRUE, status |-> 0, body |-> "malformed",
             aqi |-> Absent, pm25 |-> Absent, pm10 |-> Absent]
Http(st, b, a, p25, p10) == [net |-> FALSE, status |-> st, body |-> b,
                             aqi |-> a, pm25 |-> p25, pm10 |-> p10]

AqiValues == {Absent, NonNum, Num(1), Num(3)}
Pm25Values == {Absent, NonNum, Num(125)}
Pm10Values == {Absent, NonNum, Num(203)}

Responses ==
    {NetError}
    \cup {Http(st, "nolist", Absent, Absent, Absent) : st \in {401, 500}}
    \cup {Http(200, b, Absent, Absent, Absent) : b \in {"malformed", "nolist", "emptylist"}}
    \cup {Http(200, "entry", a, p25, p10) : a \in AqiValues, p25 \in Pm25Values, p10 \in Pm10Values}

\* without an appid (openweather_api_key is None) the provider answers 401
WeatherResponses(has_key) ==
    IF has_key THEN Responses ELSE {r \in Responses : r.net \/ r.status # 200}

\* without an API key generate_content raises
GeminiResponses(has_key) == IF has_key THEN GeminiOutcomes ELSE {"raise"}

(***************************************************************************)
(* State.                                                                  *)
(***************************************************************************)
VARIABLES
    pc,              \* where the script is
    env,             \* what load_location_config found missing
    locations,       \* the list load_location_config returned
    i,               \* the for loop's position in locations (from 1)
    resp,            \* the weather provider's response to this location's fetch
    aqi_data,        \* update_aqi's aqi_data
    aqi_info,        \* post_tweet's aqi_info
    caring_message,  \* post_tweet's caring_message
    tweet,           \* post_tweet's tweet
    api_v1,          \* whether post_tweet's local api_v1 is bound
    v2, v1,          \* the outcome of each publish call ("none": not called)
    success,         \* what post_tweet returned ("none": has not returned)
    outcome,         \* per location: what update_aqi returned, or "raised"
    fetches,         \* per location: the number of requests.get calls
    calls,           \* the collaborator calls of this location's run, in order
    fallbacks,       \* the <<category, message>> pairs of fallback advisories
    exit_code        \* the process's exit status (-1 while it runs)

vars == <<pc, env, locations, i, resp, aqi_data, aqi_info, caring_message, tweet,
          api_v1, v2, v1, success, outcome, fetches, calls, fallbacks, exit_code>>

\* the composed text, lines 154-159, as the fields it renders
TweetText(name, info, data, message) ==
    [name |-> name, category |-> info.category, emoji |-> info.emoji,
     epa_aqi |-> info.epa_aqi, pm25 |-> data.pm25.n, pm10 |-> data.pm10.n,
     message |-> message]
NoTweet == [name |-> 0, category |-> "", emoji |-> "", epa_aqi |-> 0,
            pm25 |-> 0, pm10 |-> 0, message |-> ""]

\* a publish call: its outcome, the text and the credential bundle it was given
Call(o, t, c) == [outcome |-> o, text |-> t, creds |-> c]
NoCall == Call("none", NoTweet, 0)

Bool(b) == IF b THEN "True" ELSE "False"

Locs == 1 .. NumLocations

Init ==
    /\ pc = "start"
    /\ env = [weather |-> TRUE, gemini |-> TRUE, creds_absent |-> FALSE]
    /\ locations = << >>
    /\ i = 1
    /\ resp = NetError
    /\ aqi_data = None
    /\ aqi_info = ClassifyRaised
    /\ caring_message = ""
    /\ tweet = NoTweet
    /\ api_v1 = FALSE
    /\ v2 = NoCall
    /\ v1 = NoCall
    /\ success = "none"
    /\ outcome = [l \in Locs |-> "pending"]
    /\ fetches = [l \in Locs |-> 0]
    /\ calls = << >>
    /\ fallbacks = {}
    /\ exit_code = -1

\* lines 230-272 and 277: load_location_config('config.json')
Load ==
    /\ pc = "start"
    /\ \E weather \in BOOLEAN, gemini \in BOOLEAN, src \in [Locs -> CredSources] :
         LET absent == \E l \in Locs : src[l] = "absent" IN
         /\ env' = [weather |-> weather, gemini |-> gemini, creds_absent |-> absent]
         /\ IF absent
              THEN \* line 259: KeyError, caught at line 285
                   /\ locations' = << >>
                   /\ pc' = "except"
              ELSE /\ locations' = [l \in Locs |->
                          [name |-> l,
                           twitter_credentials |-> IF src[l] = "partial" THEN "partial" ELSE "full",
                           openweather_api_key |-> weather,
                           gemini_api_key |-> gemini]]
                   /\ pc' = "loop"
    /\ UNCHANGED <<i, resp, aqi_data, aqi_info, caring_message, tweet, api_v1, v2, v1,
                   success, outcome, fetches, calls, fallbacks, exit_code>>

\* lines 280-284 and 211-214: the loop takes the next location, builds its
\* bot, and update_aqi calls get_aqi_openweather
Fetch ==
    /\ pc = "loop"
    /\ i <= Len(locations)
    /\ \E r \in WeatherResponses(locations[i].openweather_api_key) :
         LET d == get_aqi_openweather(r) IN
         /\ resp' = r
         /\ aqi_data' = d
         /\ pc' = IF d.kind = "raise" THEN "except" ELSE "fetched"
         /\ outcome' = [outcome EXCEPT ![i] = IF d.kind = "raise" THEN "raised" ELSE "running"]
    /\ fetches' = [fetches EXCEPT ![i] = @ + 1]
    /\ calls' = <<"fetch">>
    /\ aqi_info' = ClassifyRaised
    /\ caring_message' = ""
    /\ tweet' = NoTweet
    /\ api_v1' = FALSE
    /\ v2' = NoCall
    /\ v1' = NoCall
    /\ success' = "none"
    /\ UNCHANGED <<env, locations, i, fallbacks, exit_code>>

\* lines 216, 226-228: no reading, update_aqi returns False
NoReading ==
    /\ pc = "fetched"
    /\ aqi_data.kind = "none"
    /\ outcome' = [outcome EXCEPT ![i] = "False"]
    /\ i' = i + 1
    /\ pc' = "loop"
    /\ UNCHANGED <<env, locations, resp, aqi_data, aqi_info, caring_message, tweet, api_v1,
                   v2, v1, success, fetches, calls, fallbacks, exit_code>>

\* lines 216-219 and 140-145: a reading, post_tweet starts and classifies it
Classify ==
    /\ pc = "fetched"
    /\ aqi_data.kind = "reading"
    /\ LET info == get_aqi_category(aqi_data.aqi_index, aqi_data.pm25) IN
         /\ aqi_info' = info
         /\ pc' = IF info.kind = "raise" THEN "except" ELSE "advisory"
         /\ outcome' = IF info.kind = "raise" THEN [outcome EXCEPT ![i] = "raised"] ELSE outcome
    /\ calls' = Append(calls, "classify")
    /\ UNCHANGED <<env, locations, i, resp, aqi_data, caring_message, tweet, api_v1, v2, v1,
                   success, fetches, fallbacks, exit_code>>

\* line 148: the advisory
Advisory ==
    /\ pc = "advisory"
    /\ \E o \in GeminiResponses(locations[i].gemini_api_key) :
         LET m == get_caring_message_from_gemini(aqi_info.category, o) IN
         /\ caring_message' = m
         /\ fallbacks' = IF o = "text" THEN fallbacks
                         ELSE fallbacks \cup {<<aqi_info.category, m>>}
    /\ calls' = Append(calls, "advisory")
    /\ pc' = "time"
    /\ UNCHANGED <<env, locations, i, resp, aqi_data, aqi_info, tweet, api_v1, v2, v1,
                   success, outcome, fetches, exit_code>>

\* lines 151 and 134-138: pytz.timezone raises for an identifier it does not know
LocalTime ==
    /\ pc = "time"
    /\ \E known \in BOOLEAN :
         /\ pc' = IF known THEN "compose" ELSE "except"
         /\ outcome' = IF known THEN outcome ELSE [outcome EXCEPT ![i] = "raised"]
    /\ calls' = Append(calls, "time")
    /\ UNCHANGED <<env, locations, i, resp, aqi_data, aqi_info, caring_message, tweet, api_v1,
                   v2, v1, success, fetches, fallbacks, exit_code>>

\* lines 154-159: the f-strings; ":.1f" raises for a value that is not a number
Compose ==
    /\ pc = "compose"
    /\ LET ok == aqi_data.pm25.k = "num" /\ aqi_data.pm10.k = "num" IN
         /\ tweet' = IF ok THEN TweetText(locations[i].name, aqi_info, aqi_data, caring_message)
                           ELSE tweet
         /\ pc' = IF ok THEN "publish" ELSE "except"
         /\ outcome' = IF ok THEN outcome ELSE [outcome EXCEPT ![i] = "raised"]
    /\ calls' = Append(calls, "compose")
    /\ UNCHANGED <<env, locations, i, resp, aqi_data, aqi_info, caring_message, api_v1,
                   v2, v1, success, fetches, fallbacks, exit_code>>

\* lines 165-195: the credentials, the two clients and the v2 publish.
\* A bundle without one of the four keys raises KeyError at lines 167-170,
\* before api_v1 is bound and before create_tweet is called.
PublishV2 ==
    /\ pc = "publish"
    /\ LET creds == locations[i].twitter_credentials IN
         IF creds = "partial"
           THEN /\ api_v1' = FALSE
                /\ v2' = NoCall
                /\ success' = success
                /\ calls' = calls
                /\ pc' = "fallback"
           ELSE \E o \in V2Outcomes :
                /\ api_v1' = TRUE
                /\ v2' = Call(o, tweet, i)
                /\ calls' = Append(calls, "v2")
                /\ IF NeedsFallback(o)
                     THEN /\ success' = success
                          /\ pc' = "fallback"
                     ELSE /\ success' = Bool(PostResult(o, "none"))
                          /\ pc' = "return"
    /\ UNCHANGED <<env, locations, i, resp, aqi_data, aqi_info, caring_message, tweet, v1,
                   outcome, fetches, fallbacks, exit_code>>

\* lines 197-209: the v1 fallback.  With api_v1 unbound line 204 raises
\* NameError inside the inner try, which line 207 catches.
PublishV1 ==
    /\ pc = "fallback"
    /\ IF ~api_v1
         THEN /\ v1' = NoCall
              /\ calls' = calls
              /\ success' = Bool(PostResult(v2.outcome, "raise"))
         ELSE \E o \in V1Outcomes :
              /\ v1' = Call(o, tweet, i)
              /\ calls' = Append(calls, "v1")
              /\ success' = Bool(PostResult(v2.outcome, o))
    /\ pc' = "return"
    /\ UNCHANGED <<env, locations, i, resp, aqi_data, aqi_info, caring_message, tweet, api_v1,
                   v2, outcome, fetches, fallbacks, exit_code>>

\* lines 219-225 and 284: update_aqi returns, the loop goes on
UpdateReturn ==
    /\ pc = "return"
    /\ outcome' = [outcome EXCEPT ![i] = UpdateResult(success)]
    /\ i' = i + 1
    /\ pc' = "loop"
    /\ UNCHANGED <<env, locations, resp, aqi_data, aqi_info, caring_message, tweet, api_v1,
                   v2, v1, success, fetches, calls, fallbacks, exit_code>>

\* lines 285-287: the handler around the whole loop prints the exception;
\* the loop is not resumed
MainExcept ==
    /\ pc = "except"
    /\ pc' = "done"
    /\ exit_code' = ExitCode("except")
    /\ UNCHANGED <<env, locations, i, resp, aqi_data, aqi_info, caring_message, tweet, api_v1,
                   v2, v1, success, outcome, fetches, calls, fallbacks>>

\* line 280: the list is exhausted
Finish ==
    /\ pc = "loop"
    /\ i > Len(locations)
    /\ pc' = "done"
    /\ exit_code' = ExitCode("loop")
    /\ UNCHANGED <<env, locations, i, resp, aqi_data, aqi_info, caring_message, tweet, api_v1,
                   v2, v1, success, outcome, fetches, calls, fallbacks>>

Next ==
    \/ Load
    \/ Fetch
    \/ NoReading
    \/ Classify
    \/ Advisory
    \/ LocalTime
    \/ Compose
    \/ PublishV2
    \/ PublishV1
    \/ UpdateReturn
    \/ MainExcept
    \/ Finish

Spec == Init /\ [][Next]_vars

(***************************************************************************)
(* The classifier on a grid of readings: the states right after a fetch of *)
(* the first location that returned a reading, for every ordinal index in  *)
(* -1 .. MaxIndex (and one that is not a number) and every pm2_5 in        *)
(* 0 .. MaxPm25 tenths (and one that is not a number); then Classify.      *)
(***************************************************************************)
GridIndex == {Num(k) : k \in -1 .. MaxIndex} \cup {NonNum}
GridPm25 == {Num(p) : p \in 0 .. MaxPm25} \cup {NonNum}

InitClassify ==
    /\ pc = "fetched"
    /\ env = [weather |-> TRUE, gemini |-> TRUE, creds_absent |-> FALSE]
    /\ locations = [l \in Locs |-> [name |-> l, twitter_credentials |-> "full",
                                    openweather_api_key |-> TRUE, gemini_api_key |-> TRUE]]
    /\ i = 1
    /\ \E a \in GridIndex, p \in GridPm25 :
         /\ resp = Http(200, "entry", a, p, Absent)
         /\ aqi_data = get_aqi_openweather(resp)
    /\ aqi_info = ClassifyRaised
    /\ caring_message = ""
    /\ tweet = NoTweet
    /\ api_v1 = FALSE
    /\ v2 = NoCall
    /\ v1 = NoCall
    /\ success = "none"
    /\ outcome = [l \in Locs |-> IF l = 1 THEN "running" ELSE "pending"]
    /\ fetches = [l \in Locs |-> IF l = 1 THEN 1 ELSE 0]
    /\ calls = <<"fetch">>
    /\ fallbacks = {}
    /\ exit_code = -1

SpecClassify == InitClassify /\ [][Classify]_vars

(***************************************************************************)
(* Properties.                                                             *)
(***************************************************************************)
Last(s) == s[Len(s)]
Count(s, x) == Cardinality({k \in DOMAIN s : s[k] = x})
StageOrder == <<"fetch", "classify", "advisory", "time", "compose", "v2", "v1">>

\* C1: post_tweet returns False only when neither publish call succeeded,
\* returns True as soon as either succeeded, and a failed publish call never
\* becomes an exception: post_tweet returns after it.
C1_PostTweetResult ==
    /\ success = "False" => v2.outcome # "ok" /\ v1.outcome # "ok"
    /\ (v2.outcome = "ok" \/ v1.outcome = "ok") => success = "True"
    /\ (v2.outcome \in {"raise", "badshape"} /\ v1.outcome = "raise") => success = "False"
    /\ v2.outcome # "none" => pc \in {"fallback", "return", "loop", "done"}
    /\ pc = "return" => success # "none"

\* both publish calls were made and both failed, and post_tweet returned False
C1_BothFailed ==
    /\ pc = "return"
    /\ v2.outcome = "raise"
    /\ v1.outcome = "raise"
    /\ success = "False"

\* C2: when the run has ended, every location listed after a location whose
\* run failed (update_aqi returned False, or a stage raised) had its fetch
\* issued.
C2_FailureIsolation ==
    pc = "done" =>
        \A l \in DOMAIN locations, m \in DOMAIN locations :
            (l < m /\ outcome[l] \in {"False", "raised"}) => fetches[m] >= 1

\* C3: get_aqi_openweather never raises; it returns None for a network
\* exception, a status other than 200, malformed JSON, a body without "list"
\* and an empty "list"; it returns a reading only for status 200 with a
\* non-empty list, holding the index and the components (absent ones as 0).
C3_FetcherNoResult ==
    calls # << >> =>
        /\ aqi_data.kind # "raise"
        /\ (Len(calls) = 1 => pc # "except")
        /\ (resp.net \/ resp.status # 200 \/ resp.body \in {"malformed", "nolist", "emptylist"})
              => aqi_data = None
        /\ aqi_data.kind = "reading" =>
              /\ ~resp.net /\ resp.status = 200 /\ resp.body = "entry"
              /\ aqi_data.aqi_index = resp.aqi
              /\ aqi_data.pm25 = (IF resp.pm25 = Absent THEN Num(0) ELSE resp.pm25)
              /\ aqi_data.pm10 = (IF resp.pm10 = Absent THEN Num(0) ELSE resp.pm10)

\* a 200 response with malformed JSON was fetched and gave no reading
C3_MalformedGivesNone ==
    /\ pc = "fetched"
    /\ resp.status = 200
    /\ resp.body = "malformed"
    /\ aqi_data = None

\* C4: no exception caused by a provider's outcome (a transport failure or
\* an unexpected response shape of the weather, text-generation or
\* publishing provider) reaches the handler around the loop: the handler is
\* only ever entered from the local-time stage or from loading.
C4_NoProviderExceptionEscapes ==
    (pc = "except" /\ calls # << >>) => Last(calls) = "time"

C6_WithinBand ==
    (aqi_info.kind = "ok" /\ aqi_data.aqi_index.k = "num" /\ aqi_data.aqi_index.n \in 1 .. 5) =>
        LET k == aqi_data.aqi_index.n
            floor == (k - 1) * 50
            cap == IF k = 5 THEN 300 ELSE k * 50
        IN floor <= aqi_info.epa_aqi /\ aqi_info.epa_aqi <= cap

C8_CategoryTable ==
    aqi_info.kind = "ok" =>
        LET a == aqi_data.aqi_index
            is(c, e) == aqi_info.category = c /\ aqi_info.emoji = e
        IN /\ IndexIs(a, 1) => is("Good", "green")
           /\ IndexIs(a, 2) => is("Fair", "green")
           /\ IndexIs(a, 3) => is("Moderate", "yellow")
           /\ IndexIs(a, 4) => is("Poor", "orange")
           /\ IndexIs(a, 5) => is("Very Poor", "red")
           /\ (a.k = "num" /\ (a.n < 1 \/ a.n > 5)) => is("Very Poor", "red")
           /\ aqi_info.category # "Unknown"

\* index 0 was classified, as Very Poor
C8_IndexZeroVeryPoor ==
    /\ aqi_info.kind = "ok"
    /\ aqi_data.aqi_index = Num(0)
    /\ aqi_info.category = "Very Poor"

\* C9: a location's fetch is issued once; without a reading update_aqi
\* returns False and neither the advisory nor a publish call was made; the
\* calls of a run follow the order fetch, classify, advisory, time, compose,
\* v2, v1; update_aqi returns True exactly when there was a reading and
\* post_tweet returned True.
C9_UpdateAqiPipeline ==
    /\ \A l \in Locs : fetches[l] <= 1 /\ (outcome[l] # "pending" => fetches[l] = 1)
    /\ calls # << >> => Count(calls, "fetch") = 1
    /\ \A k \in DOMAIN calls : calls[k] = StageOrder[k]
    /\ (calls # << >> /\ aqi_data.kind = "none") =>
          /\ calls = <<"fetch">>
          /\ caring_message = "" /\ v2 = NoCall /\ v1 = NoCall
          /\ pc \in {"fetched", "loop", "done"}
          /\ pc # "fetched" => outcome[i - 1] = "False"
    /\ (pc = "loop" /\ i > 1) =>
          (outcome[i - 1] = "True" <=> (aqi_data.kind = "reading" /\ success = "True"))
    /\ (pc = "loop" /\ i > 1) => outcome[i - 1] \in {"True", "False"}

\* a location whose fetch gave no reading has ended with False
C9_NoReadingEndsFalse ==
    /\ pc = "loop"
    /\ i > 1
    /\ aqi_data.kind = "none"
    /\ outcome[i - 1] = "False"
    /\ calls = <<"fetch">>

\* C10: the fallback is called only after the primary was called and
\* failed, at most once, with the text and the credential bundle the
\* primary was given; after a primary success it is not called, so at most
\* one of the two calls succeeds.
C10_OneShotFallback ==
    /\ v1.outcome # "none" =>
          /\ v2.outcome \in {"raise", "badshape"}
          /\ v1.text = v2.text /\ v1.creds = v2.creds
          /\ v1.text = tweet /\ v1.creds = i - (IF pc \in {"loop", "done"} THEN 1 ELSE 0)
    /\ v2.outcome = "ok" => (v1.outcome = "none" /\ pc # "fallback")
    /\ ~(v2.outcome = "ok" /\ v1.outcome = "ok")
    /\ Count(calls, "v2") <= 1 /\ Count(calls, "v1") <= 1
    /\ Count(calls, "v1") = 1 =>
          (Count(calls, "v2") = 1 /\ Last(calls) = "v1" /\ calls[Len(calls) - 1] = "v2")
    /\ (Count(calls, "v1") = 1) <=> (v1.outcome # "none")

\* the primary failed and the fallback published the same text
C10_FallbackPublished ==
    /\ pc = "return"
    /\ v2.outcome = "badshape"
    /\ v1.outcome = "ok"
    /\ v1.text = v2.text

=============================================================================
